---------------------------- MODULE Spec2Model ----------------------------
(***************************************************************************)
(* A model of the raycast-zk extension: the zk subprocess wrapper          *)
(* (src/src/lib/zk.ts) and the search screen that calls it                 *)
(* (src/src/search.tsx).                                                   *)
(*                                                                         *)
(* Text is a sequence of tokens.  A token stands for a run of characters   *)
(* that the code never looks inside, except for the substrings it tests    *)
(* with includes(), startsWith() and its regular expressions; those tests  *)
(* are tables over the tokens (HasFound, HasNotes, ...).  "NL" is a line   *)
(* break and "SP" a blank.  JSON commas are left out: the elements of an   *)
(* array follow each other.                                                *)
(***************************************************************************)
EXTENDS Integers, Sequences, FiniteSets, TLC

VARIABLES
    notebookDir,  \* ZK_NOTEBOOK_DIR, fixed when the module is loaded
    pc,           \* where the running list/search request is suspended
    query,        \* the search text the request runs for
    cmds,         \* the zk command lines spawned by the request, in order
    outerErr,     \* errorMessage of searchNotes' catch block
    listErr,      \* errorMessage of listNotes' catch block
    viaSearch,    \* listNotes is running as searchNotes' fallback
    execArgs,     \* the arguments of an execZk call
    execProc,     \* what the zk process of that call produced
    execOut,      \* what that execZk call returned or threw
    how,          \* how the result was obtained (history)
    result,       \* what the request returned or threw
    searchText,   \* SearchNotes' state
    lastCallId,   \* usePromise: id of the latest call
    inflight,     \* usePromise: calls not yet settled
    data,         \* usePromise: the data shown
    dropped,      \* usePromise: ids of the calls whose outcome was discarded (history)
    toast,        \* the last toast shown, if any
    openLog,      \* openNote / getNoteContent calls with what they did
    exIn,         \* an output handed to extractJson
    exOut         \* what extractJson made of it

zkVars == <<pc, query, cmds, outerErr, listErr, viaSearch, how, result>>
uiVars == <<searchText, lastCallId, inflight, data, dropped, toast>>
exVars == <<exIn, exOut, execArgs, execProc, execOut>>
vars == <<notebookDir, zkVars, uiVars, openLog, exVars>>

None == [kind |-> "none"]

NoLog == [fn |-> "none", notePath |-> <<>>, absolutePath |-> <<>>, attempts |-> <<>>,
          outcome |-> "none"]

-----------------------------------------------------------------------------
(* Strings *)

RECURSIVE Concat(_)
Concat(ss) == IF ss = <<>> THEN <<>> ELSE Head(ss) \o Concat(Tail(ss))

Range(s) == {s[i] : i \in 1..Len(s)}

\* String.prototype.toLowerCase, token by token
LowerTok(t) ==
    CASE t = "Found 2 notes" -> "found 2 notes"
      [] t = "Found 1 note" -> "found 1 note"
      [] t = "Warning:" -> "warning:"
      [] t = "Notes" -> "notes"
      [] t = "Orphan" -> "orphan"
      [] t = "ORPHANS" -> "orphans"
      [] t = "Alpha" -> "alpha"
      [] t = "Untitled" -> "untitled"
      [] t = "Failed to list notes:" -> "failed to list notes:"
      [] t = "Failed to search notes:" -> "failed to search notes:"
      [] t = "{id:1,title:Alpha,path:dir/alpha.md}" -> "{id:1,title:alpha,path:dir/alpha.md}"
      [] t = "{title:Warning: disk,path:w.md}" -> "{title:warning: disk,path:w.md}"
      [] OTHER -> t

toLowerCase(s) == [i \in 1..Len(s) |-> LowerTok(s[i])]

\* the tokens whose characters contain "found", "notes", "warning", "warning:"
FoundToks == {"found", "found 2 notes", "found 1 note", "not found"}
NotesToks == {"notes", "found 2 notes", "failed to list notes:", "failed to search notes:"}
WarningToks == {"warning", "warning:", "{title:warning: disk,path:w.md}"}
WarningColonToks == {"warning:", "{title:warning: disk,path:w.md}"}
\* the object literals: each holds a "{" and a "}"; one holds ".md" too
ObjToks == {"{id:1,title:Alpha,path:dir/alpha.md}", "{path:b.md}", "{id:7}", "{}",
            "{title:Warning: disk,path:w.md}"}
OpenBraceToks == ObjToks \cup {"{"}
CloseBraceToks == ObjToks \cup {"}"}
MdToks == {".md", "{id:1,title:Alpha,path:dir/alpha.md}", "{path:b.md}",
           "{title:Warning: disk,path:w.md}"}
Whitespace == {"SP", "NL"}

\* text.includes(w) for the words the code looks for
HasTok(s, toks) == \E i \in 1..Len(s) : s[i] \in toks
HasFound(s) == HasTok(toLowerCase(s), FoundToks)
HasNotes(s) == HasTok(toLowerCase(s), NotesToks)
HasFoundNotes(s) == HasFound(s) /\ HasNotes(s)

\* a.includes(b) for two strings: b occurs in a as a run of tokens
Includes(a, b) ==
    \E i \in 0..(Len(a) - Len(b)) : \A j \in 1..Len(b) : a[i + j] = b[j]

RECURSIVE TrimStart(_)
TrimStart(s) ==
    IF s # <<>> /\ Head(s) \in Whitespace THEN TrimStart(Tail(s)) ELSE s

RECURSIVE TrimEnd(_)
TrimEnd(s) ==
    IF s # <<>> /\ s[Len(s)] \in Whitespace THEN TrimEnd(SubSeq(s, 1, Len(s) - 1)) ELSE s

\* String.prototype.trim
Trim(s) == TrimEnd(TrimStart(s))

\* s.split(sep): the pieces between the separators (always at least one)
RECURSIVE Split(_, _)
Split(s, sep) ==
    IF \A i \in 1..Len(s) : s[i] # sep THEN <<s>>
    ELSE LET k == CHOOSE i \in 1..Len(s) : s[i] = sep /\ \A j \in 1..(i - 1) : s[j] # sep
         IN <<SubSeq(s, 1, k - 1)>> \o Split(SubSeq(s, k + 1, Len(s)), sep)

\* pieces.join(sep)
RECURSIVE Join(_, _)
Join(pieces, sep) ==
    IF pieces = <<>> THEN <<>>
    ELSE IF Len(pieces) = 1 THEN pieces[1]
    ELSE pieces[1] \o <<sep>> \o Join(Tail(pieces), sep)

\* array.filter(Boolean) on strings: the empty ones go
RECURSIVE FilterNonEmpty(_)
FilterNonEmpty(ss) ==
    IF ss = <<>> THEN <<>>
    ELSE (IF Head(ss) = <<>> THEN <<>> ELSE <<Head(ss)>>) \o FilterNonEmpty(Tail(ss))

\* /^Found \d+ notes?$/i on a trimmed line
IsFoundLine(trimmed) ==
    Len(trimmed) = 1 /\ LowerTok(trimmed[1]) \in {"found 2 notes", "found 1 note"}


-----------------------------------------------------------------------------
(* extractJson *)

\* the filter of extractJson: the lines that stay
KeepLine(line) ==
    LET trimmed == Trim(line)
    IN  /\ trimmed # <<>>
        /\ ~IsFoundLine(trimmed)
        /\ ~HasTok(toLowerCase(trimmed), WarningColonToks)

Cleaned(output) == Join(SelectSeq(Split(output, "NL"), KeepLine), "NL")

\* index of the first / last token of s in toks, 0 when there is none
FirstIdx(s, toks) ==
    IF HasTok(s, toks)
    THEN CHOOSE i \in 1..Len(s) : s[i] \in toks /\ \A j \in 1..(i - 1) : s[j] \notin toks
    ELSE 0

LastIdx(s, toks) ==
    IF HasTok(s, toks)
    THEN CHOOSE i \in 1..Len(s) : s[i] \in toks /\ \A j \in (i + 1)..Len(s) : s[j] \notin toks
    ELSE 0

\* cleaned.match(/\[[\s\S]*\]/): the first "[" to the last "]"
JsonMatch(cleaned) ==
    LET a == FirstIdx(cleaned, {"["})
        b == LastIdx(cleaned, {"]"})
    IN  IF a # 0 /\ b > a THEN [found |-> TRUE, text |-> SubSeq(cleaned, a, b)]
        ELSE [found |-> FALSE, text |-> <<>>]

\* cleaned.match(/\{[\s\S]*\}/): the first "{" to the last "}"
ObjectMatch(cleaned) ==
    LET a == FirstIdx(cleaned, OpenBraceToks)
        b == LastIdx(cleaned, CloseBraceToks)
    IN  IF a # 0 /\ b >= a THEN [found |-> TRUE, text |-> SubSeq(cleaned, a, b)]
        ELSE [found |-> FALSE, text |-> <<>>]

extractJson(output) ==
    LET cleaned == Cleaned(output)
    IN  IF JsonMatch(cleaned).found THEN JsonMatch(cleaned).text
        ELSE IF ObjectMatch(cleaned).found THEN ObjectMatch(cleaned).text
        ELSE Trim(cleaned)

-----------------------------------------------------------------------------
(* JSON.parse and the mapping of its elements to notes *)

ElemToks == ObjToks \cup {"null"}

NotWhitespace(t) == t \notin Whitespace

\* JSON.parse on the token language: an array of object literals and nulls,
\* one object literal, null; anything else is a SyntaxError
JSONparse(text) ==
    LET toks == SelectSeq(text, NotWhitespace)
        n == Len(toks)
    IN  IF n >= 2 /\ toks[1] = "[" /\ toks[n] = "]"
           /\ \A i \in 2..(n - 1) : toks[i] \in ElemToks
        THEN [ok |-> TRUE, isArray |-> TRUE, elems |-> SubSeq(toks, 2, n - 1)]
        ELSE IF (n = 1 /\ toks[1] \in ElemToks) \/ toks = <<"{", "}">>
        THEN [ok |-> TRUE, isArray |-> FALSE, elems |-> <<>>]
        ELSE [ok |-> FALSE, isArray |-> FALSE, elems |-> <<>>]

\* the message of the SyntaxError: without the source text (older V8) or with
\* the source text quoted in it (newer V8, for a short text)
SyntaxErrorMessages(text) ==
    { <<"Unexpected token">>,
      <<"Unexpected token">> \o text \o <<"is not valid JSON">> }

\* the fields of an object literal; <<>> is a missing (or empty) field
Fields(tok) ==
    CASE tok = "{id:1,title:Alpha,path:dir/alpha.md}" ->
            [id |-> <<"1">>, title |-> <<"Alpha">>, path |-> <<"dir", "/", "alpha", ".md">>]
      [] tok = "{path:b.md}" -> [id |-> <<>>, title |-> <<>>, path |-> <<"b", ".md">>]
      [] tok = "{id:7}" -> [id |-> <<"7">>, title |-> <<>>, path |-> <<>>]
      [] tok = "{title:Warning: disk,path:w.md}" ->
            [id |-> <<>>, title |-> <<"Warning:", "SP", "disk">>, path |-> <<"w", ".md">>]
      [] OTHER -> [id |-> <<>>, title |-> <<>>, path |-> <<>>]

\* a || b on strings
Or(a, b) == IF a # <<>> THEN a ELSE b

\* s.replace(/\.md$/, "")
StripMd(s) == IF s # <<>> /\ s[Len(s)] = ".md" THEN SubSeq(s, 1, Len(s) - 1) ELSE s

\* path.split("/").pop()?.replace(/\.md$/, "")
TitleFromPath(p) ==
    LET segs == Split(p, "/")
    IN  StripMd(segs[Len(segs)])

\* ToNote without the "Untitled" default
ToNoteNoDefault(tok) ==
    LET note == Fields(tok)
    IN  [id |-> Or(note.id, Or(note.path, <<>>)),
         title |-> Or(note.title, TitleFromPath(note.path)),
         path |-> Or(note.path, Or(note.id, <<>>))]

\* the object built from one element of the parsed array
ToNote(tok) ==
    LET note == Fields(tok)
    IN  [id |-> Or(note.id, Or(note.path, <<>>)),
         title |-> Or(note.title, Or(TitleFromPath(note.path), <<"Untitled">>)),
         path |-> Or(note.path, Or(note.id, <<>>))]

\* the note built from one line of the plain-text listing
LineNote(line) ==
    LET p == Trim(line)
    IN  [id |-> p, title |-> Or(TitleFromPath(p), <<"Untitled">>), path |-> p]

\* notes.map(...): one note per element, in the array's order
MapNotes(elems) == [i \in 1..Len(elems) |-> ToNote(elems[i])]

Ok(elems) == [ok |-> TRUE, notes |-> MapNotes(elems), source |-> elems, msgs |-> {}]
Fail(msgs) == [ok |-> FALSE, notes |-> <<>>, source |-> <<>>, msgs |-> msgs]

\* extractJson, JSON.parse, the Array.isArray test and notes.map of a try block:
\* the notes, or the messages the error thrown may carry
ParseNotes(output) ==
    LET jsonOutput == extractJson(output)
        parsed == JSONparse(jsonOutput)
    IN  IF ~parsed.ok THEN Fail(SyntaxErrorMessages(jsonOutput))
        ELSE IF ~parsed.isArray THEN Fail({<<"Expected array of", "notes">>})
        ELSE IF \E i \in 1..Len(parsed.elems) : parsed.elems[i] = "null"
        THEN Fail({<<"Cannot read properties of null">>})
        ELSE Ok(parsed.elems)

\* the catch block's attempt to find the notes in the error message
RecoverNotes(errorMessage) ==
    LET parsed == JSONparse(extractJson(errorMessage))
    IN  IF HasFoundNotes(errorMessage) /\ parsed.ok /\ parsed.isArray
           /\ \A i \in 1..Len(parsed.elems) : parsed.elems[i] # "null"
        THEN Ok(parsed.elems)
        ELSE Fail({})

-----------------------------------------------------------------------------
(* execZk *)

Returned(text) == [threw |-> FALSE, text |-> text]
Threw(message) == [threw |-> TRUE, text |-> message]

\* the command line handed to /bin/bash: the environment, ZK_BIN, the arguments
Command(args) == <<"ZK_NOTEBOOK_DIR=">> \o notebookDir \o <<"SP", "zk", "SP">> \o args

\* the message of the error child_process.exec rejects with on a non-zero exit
ExecErrorMessage(args, stderr) == <<"Command failed:">> \o Command(args) \o <<"NL">> \o stderr

\* isInformationalMessage without the test for "warning"
isInformationalNoWarning(text) ==
    \/ Trim(text) = <<>>
    \/ HasFoundNotes(text)

isInformationalMessage(text) ==
    \/ Trim(text) = <<>>
    \/ HasFoundNotes(text)
    \/ HasTok(toLowerCase(text), WarningToks)

\* the catch block of execZk
ExecCatch(stdout, stderr, errorMessage) ==
    LET allOutput == Join(FilterNonEmpty(<<stdout, stderr, errorMessage>>), "NL")
        combined == Trim(Join(FilterNonEmpty(<<stdout, stderr>>), "NL"))
    IN  IF HasFoundNotes(allOutput)
        THEN Returned(Or(combined, allOutput))
        ELSE Threw(<<"zk command failed:">> \o errorMessage)

\* the try block of execZk when the process exits with status 0; the Error
\* thrown inside it carries no stdout or stderr and lands in the catch block
ExecTry(stdout, stderr) ==
    LET combinedOutput == Trim(Join(FilterNonEmpty(<<stdout, stderr>>), "NL"))
        hasValidOutput ==
            /\ stdout # <<>>
            /\ \/ HasTok(stdout, {"["})
               \/ HasTok(stdout, OpenBraceToks)
               \/ HasTok(stdout, MdToks)
               \/ Len(Trim(stdout)) > 0
    IN  IF stderr # <<>> /\ ~isInformationalMessage(stderr) /\ ~hasValidOutput
        THEN ExecCatch(<<>>, <<>>, stderr)
        ELSE Returned(combinedOutput)

execZk(args, proc) ==
    IF proc.code = 0
    THEN ExecTry(proc.stdout, proc.stderr)
    ELSE ExecCatch(proc.stdout, proc.stderr, ExecErrorMessage(args, proc.stderr))

-----------------------------------------------------------------------------
(* The argument lists of the zk invocations *)

ListJsonArgs == <<"list", "--format", "json", "--sort", "modified">>
ListPlainArgs == <<"list", "--sort", "modified">>
FilterArgs == <<"list", "--format", "json", "--no-input", "--quiet">>

TagArgs(tag) == FilterArgs \o <<"--tag">> \o tag

StartsWith(s, t) == s # <<>> /\ s[1] = t

\* the date patterns of searchByDate
DateArgs(dateQuery) ==
    LET lowerQuery == toLowerCase(dateQuery)
        rest == Trim(Tail(dateQuery))
    IN  FilterArgs \o
        (IF lowerQuery = <<"today">> THEN <<"--created", "today">>
         ELSE IF lowerQuery = <<"yesterday">> THEN <<"--created", "yesterday">>
         ELSE IF lowerQuery \in {<<"week">>, <<"this", "SP", "week">>}
              THEN <<"--created-after", "last monday">>
         ELSE IF lowerQuery \in {<<"month">>, <<"this", "SP", "month">>}
              THEN <<"--created-after", "last month">>
         ELSE IF lowerQuery \in {<<"recent">>, <<"modified">>} THEN <<"--sort", "modified">>
         ELSE IF StartsWith(lowerQuery, "created:") THEN <<"--created">> \o rest
         ELSE IF StartsWith(lowerQuery, "modified:") THEN <<"--modified">> \o rest
         ELSE IF StartsWith(lowerQuery, "after:") THEN <<"--created-after">> \o rest
         ELSE IF StartsWith(lowerQuery, "before:") THEN <<"--created-before">> \o rest
         ELSE <<"--created">> \o dateQuery)

ModeFlag(mode) ==
    CASE mode = "linked-by" -> "--linked-by"
      [] mode = "link-to" -> "--link-to"
      [] mode = "related" -> "--related"
      [] OTHER -> "--orphan"

LinksArgs(linkQuery, mode) ==
    FilterArgs \o <<"--sort", "modified">> \o
    (IF mode = "orphan" THEN <<"--orphan">> ELSE <<ModeFlag(mode)>> \o linkQuery)

MatchArgs(q) == FilterArgs \o <<"--sort", "modified", "--match">> \o q

-----------------------------------------------------------------------------
(* The dispatch of searchNotes and of the search screen *)

Call(fn, arg, mode) == [fn |-> fn, arg |-> arg, mode |-> mode]

\* PrefixCall without the trim of the rest of the query
PrefixCallUntrimmed(q, fn, mode) ==
    LET rest == Tail(q)
    IN  IF rest # <<>> THEN Call(fn, rest, mode) ELSE Call("listNotes", <<>>, "")

\* a prefix search: the operation when the rest of the query is not blank,
\* listNotes otherwise
PrefixCall(q, fn, mode) ==
    LET rest == Trim(Tail(q))
    IN  IF rest # <<>> THEN Call(fn, rest, mode) ELSE Call("listNotes", <<>>, "")

\* searchNotes(query): the operation it hands the query to ("match" is its own
\* --match search)
searchNotes(q) ==
    IF StartsWith(q, "#") THEN PrefixCall(q, "searchByTag", "")
    ELSE IF StartsWith(q, "@") THEN PrefixCall(q, "searchByDate", "")
    ELSE IF StartsWith(q, ">") THEN PrefixCall(q, "searchByLinks", "linked-by")
    ELSE IF StartsWith(q, "<") THEN PrefixCall(q, "searchByLinks", "link-to")
    ELSE IF StartsWith(q, "~") THEN PrefixCall(q, "searchByLinks", "related")
    ELSE IF StartsWith(q, "!")
            /\ toLowerCase(Trim(Tail(q))) \in {<<"orphan">>, <<"orphans">>}
         THEN Call("searchByLinks", <<>>, "orphan")
    ELSE Call("match", q, "")

\* SearchFn without the query: every search lists all notes
SearchFnListOnly(q) == Call("listNotes", <<>>, "")

\* the function the search screen gives usePromise
SearchFn(q) == IF Trim(q) # <<>> THEN searchNotes(q) ELSE Call("listNotes", <<>>, "")

\* the arguments of the first zk invocation of a call
FirstArgs(call) ==
    CASE call.fn = "listNotes" -> ListJsonArgs
      [] call.fn = "searchByTag" -> TagArgs(call.arg)
      [] call.fn = "searchByDate" -> DateArgs(call.arg)
      [] call.fn = "searchByLinks" -> LinksArgs(call.arg, call.mode)
      [] OTHER -> MatchArgs(call.arg)

\* FirstPc with the tag, date and link searches run like the --match search,
\* whose catch block calls listNotes
FirstPcWithFallback(call) ==
    CASE call.fn = "listNotes" -> "listNotes"
      [] OTHER -> "searchNotes"

\* where the call waits for its first zk process
FirstPc(call) ==
    CASE call.fn = "listNotes" -> "listNotes"
      [] call.fn = "match" -> "searchNotes"
      [] OTHER -> "searchBy"

-----------------------------------------------------------------------------
(* What a zk process can produce *)

MaxNotes == 2

SeqsUpTo(S, n) == UNION {[1..k -> S] : k \in 0..n}

ArrayElems == {"{id:1,title:Alpha,path:dir/alpha.md}", "{path:b.md}", "{id:7}"}

JsonArrays == {<<"[">> \o elems \o <<"]">> : elems \in SeqsUpTo(ArrayElems, MaxNotes)}

Stdouts ==
    JsonArrays \cup
    { <<>>,
      <<"Found 2 notes", "NL", "[", "{path:b.md}", "{}", "]">>,
      <<"[", "null", "]">>,
      <<"[", "{title:Warning: disk,path:w.md}", "]">>,
      <<"{path:b.md}">>,
      <<"dir", "/", "alpha", ".md", "NL", "SP", "b", ".md", "SP", "NL", "NL", "Found 2 notes">>,
      <<"x">> }

Stderrs == { <<>>, <<"Found 2 notes">>, <<"Warning:", "SP", "x">>, <<"error">> }

\* every output with a clean exit and nothing on stderr; a few outputs with
\* every stderr and both exit statuses
CoreStdouts == { <<>>, <<"[", "{path:b.md}", "]">>, <<"x">> }

Procs ==
    [code : {0}, stdout : Stdouts, stderr : {<<>>}] \cup
    [code : {0, 1}, stdout : CoreStdouts, stderr : Stderrs]

NoProc == [code |-> -1, stdout |-> <<>>, stderr |-> <<>>]

-----------------------------------------------------------------------------
(* The list and search operations, one action per resumption *)

NoResult == [kind |-> "none", notes |-> <<>>, message |-> <<>>]
Notes(notes) == [kind |-> "ok", notes |-> notes, message |-> <<>>]
Error(message) == [kind |-> "throw", notes |-> <<>>, message |-> message]

\* how a result came about: the way taken, the zk output it was read from, the
\* array elements or lines the notes were built from, and whether searchNotes
\* filtered the list afterwards
How(via, out, source, filtered) ==
    [via |-> via, out |-> out, source |-> source, filtered |-> filtered]
NoHow == How("none", <<>>, <<>>, FALSE)

\* the try block of an operation once its zk process has ended: the notes, or
\* the message of the error its catch block receives
Attempt(args, proc) ==
    LET e == execZk(args, proc)
        p == ParseNotes(e.text)
    IN  IF e.threw
        THEN {[ok |-> FALSE, notes |-> <<>>, source |-> <<>>, err |-> e.text, out |-> <<>>]}
        ELSE IF p.ok
        THEN {[ok |-> TRUE, notes |-> p.notes, source |-> p.source, err |-> <<>>, out |-> e.text]}
        ELSE {[ok |-> FALSE, notes |-> <<>>, source |-> <<>>, err |-> m, out |-> e.text] :
                 m \in p.msgs}

\* the filter of searchNotes' fallback
ClientFilter(allNotes, q) ==
    LET queryLower == toLowerCase(q)
        Matches(note) == \/ Includes(toLowerCase(note.title), queryLower)
                         \/ Includes(toLowerCase(note.path), queryLower)
    IN  SelectSeq(allNotes, Matches)

\* KeepListLine without the test for "Found N notes"
KeepListLineAnyText(line) == Trim(line) # <<>>

\* the lines of the plain listing that become notes
KeepListLine(line) ==
    LET trimmed == Trim(line)
    IN  trimmed # <<>> /\ ~IsFoundLine(trimmed)

PlainLines(output) == SelectSeq(Split(output, "NL"), KeepListLine)

PlainNotes(lines) == [i \in 1..Len(lines) |-> LineNote(lines[i])]

Request(q) ==
    /\ pc = "idle"
    /\ query' = q
    /\ cmds' = <<FirstArgs(SearchFn(q))>>
    /\ pc' = FirstPc(SearchFn(q))
    /\ UNCHANGED <<notebookDir, outerErr, listErr, viaSearch, how, result,
                   uiVars, openLog, exVars>>

\* SearchByFailed rethrowing, as listNotes does
SearchByFailedThrows(errorMessage) == Error(errorMessage)

\* the last statement of the catch block of searchByTag, searchByDate and
\* searchByLinks
SearchByFailed(errorMessage) == Notes(<<>>)

\* searchByTag, searchByDate, searchByLinks after their zk process
SearchByExit(proc) ==
    /\ pc = "searchBy"
    /\ \E a \in Attempt(cmds[1], proc) :
          LET rec == RecoverNotes(a.err)
          IN  /\ result' = IF a.ok THEN Notes(a.notes)
                           ELSE IF rec.ok THEN Notes(rec.notes)
                           ELSE SearchByFailed(a.err)
              /\ how' = IF a.ok THEN How("json", a.out, a.source, FALSE)
                        ELSE IF rec.ok THEN How("recovered", a.err, rec.source, FALSE)
                        ELSE How("empty", a.out, <<>>, FALSE)
              /\ outerErr' = a.err
    /\ pc' = "done"
    /\ UNCHANGED <<notebookDir, query, cmds, listErr, viaSearch, uiVars, openLog, exVars>>

\* searchNotes' own --match search after its zk process
SearchNotesExit(proc) ==
    /\ pc = "searchNotes"
    /\ \E a \in Attempt(cmds[1], proc) :
          LET rec == RecoverNotes(a.err)
          IN  /\ outerErr' = a.err
              /\ IF a.ok \/ rec.ok
                 THEN /\ result' = IF a.ok THEN Notes(a.notes) ELSE Notes(rec.notes)
                      /\ how' = IF a.ok THEN How("json", a.out, a.source, FALSE)
                                ELSE How("recovered", a.err, rec.source, FALSE)
                      /\ pc' = "done"
                      /\ UNCHANGED <<cmds, viaSearch>>
                 ELSE /\ cmds' = Append(cmds, ListJsonArgs)
                      /\ viaSearch' = TRUE
                      /\ pc' = "listNotes"
                      /\ UNCHANGED <<result, how>>
    /\ UNCHANGED <<notebookDir, query, listErr, uiVars, openLog, exVars>>

\* what the caller of listNotes does with the notes it returns
ListReturned(notes) == IF viaSearch THEN Notes(ClientFilter(notes, query)) ELSE Notes(notes)

\* what the caller of listNotes does with the error it throws
ListThrew(message) ==
    IF viaSearch /\ ~HasFoundNotes(message)
    THEN Error(<<"Failed to search notes:">> \o outerErr)
    ELSE Error(message)

\* listNotes after its first zk process
ListNotesExit(proc) ==
    /\ pc = "listNotes"
    /\ \E a \in Attempt(cmds[Len(cmds)], proc) :
          LET rec == RecoverNotes(a.err)
          IN  /\ listErr' = a.err
              /\ IF a.ok \/ rec.ok
                 THEN /\ result' = ListReturned(IF a.ok THEN a.notes ELSE rec.notes)
                      /\ how' = IF a.ok THEN How("json", a.out, a.source, viaSearch)
                                ELSE How("recovered", a.err, rec.source, viaSearch)
                      /\ pc' = "done"
                      /\ UNCHANGED cmds
                 ELSE /\ cmds' = Append(cmds, ListPlainArgs)
                      /\ pc' = "listNotesFallback"
                      /\ UNCHANGED <<result, how>>
    /\ UNCHANGED <<notebookDir, query, outerErr, viaSearch, uiVars, openLog, exVars>>

\* listNotes after the zk process of its fallback
ListFallbackExit(proc) ==
    /\ pc = "listNotesFallback"
    /\ LET e == execZk(cmds[Len(cmds)], proc)
           lines == PlainLines(e.text)
       IN  IF e.threw
           THEN /\ result' = ListThrew(IF HasFoundNotes(e.text) THEN e.text
                                       ELSE <<"Failed to list notes:">> \o listErr)
                /\ how' = How("error", <<>>, <<>>, FALSE)
           ELSE /\ result' = ListReturned(PlainNotes(lines))
                /\ how' = How("plain", e.text, lines, viaSearch)
    /\ pc' = "done"
    /\ UNCHANGED <<notebookDir, query, cmds, outerErr, listErr, viaSearch, uiVars, openLog, exVars>>

-----------------------------------------------------------------------------
(* Initial states *)

\* ZK_NOTEBOOK_DIR: the default under HOME, a directory of the user's choice,
\* the default when HOME is not set, a relative directory
DefaultDir == <<"/", "home", "/", "Sync", "/", "Notes">>
NotebookDirs == { DefaultDir, <<"/", "zk">>,
                  <<"undefined", "/", "Sync", "/", "Notes">>, <<"zk">> }

InitZk ==
    /\ pc = "idle"
    /\ query = <<>>
    /\ cmds = <<>>
    /\ outerErr = <<>>
    /\ listErr = <<>>
    /\ viaSearch = FALSE
    /\ how = NoHow
    /\ result = NoResult

InitUi ==
    /\ searchText = <<>>
    /\ lastCallId = 0
    /\ inflight = {}
    /\ data = None
    /\ dropped = {}
    /\ toast = None

InitEx ==
    /\ exIn = <<>>
    /\ exOut = None
    /\ execArgs = <<>>
    /\ execProc = NoProc
    /\ execOut = None

-----------------------------------------------------------------------------
(* The list and search operations under every outcome of the zk processes *)

SampleQueries ==
    { <<>>, <<"SP">>, <<"#", "work">>, <<"@", "today">>, <<">", "SP", "alpha">>,
      <<"!", "Orphan">>, <<"!", "x">>, <<"Alpha">>, <<"b">>, <<"found">> }

Init ==
    /\ notebookDir \in {DefaultDir, <<"/", "zk">>}
    /\ InitZk
    /\ InitUi
    /\ InitEx
    /\ openLog = NoLog

Start == \E q \in SampleQueries : Request(q)
SearchByDone == \E proc \in Procs : SearchByExit(proc)
SearchNotesDone == \E proc \in Procs : SearchNotesExit(proc)
ListNotesDone == \E proc \in Procs : ListNotesExit(proc)
ListFallbackDone == \E proc \in Procs : ListFallbackExit(proc)

Next ==
    \/ Start
    \/ SearchByDone
    \/ SearchNotesDone
    \/ ListNotesDone
    \/ ListFallbackDone

Spec == Init /\ [][Next]_vars

-----------------------------------------------------------------------------
(* Properties of the list and search operations *)

\* the request ran searchByTag, searchByDate or searchByLinks
IsSearchByRun == cmds # <<>> /\ cmds[1] # ListJsonArgs /\ ~HasTok(cmds[1], {"--match"})
\* the request ran listNotes for the search screen
IsListRun == cmds # <<>> /\ cmds[1] = ListJsonArgs
\* the request ran searchNotes' --match search
IsMatchRun == cmds # <<>> /\ HasTok(cmds[1], {"--match"})

\* the error a catch block received came from parsing, not from execZk
IsParseError(err) ==
    err # <<>> /\ err[1] \in {"Unexpected token", "Expected array of",
                             "Cannot read properties of null"}

\* the lines of a plain listing that stand for a note
IsNoteLine(line) ==
    /\ \E i \in 1..Len(line) : line[i] \notin Whitespace
    /\ ~(\E t \in {"Found 2 notes", "Found 1 note"} : Trim(line) = <<t>>)

\* C1 as stated: every search action spawns exactly one zk process, on every
\* execution path.
C1_SingleProcess == pc = "done" => Len(cmds) = 1

\* C1 as amended: a search action spawns one, two or three zk processes.  It is
\* exactly one when the first invocation yields a JSON array (from its output or
\* recovered from the error message), and always exactly one for the tag, date
\* and link searches; listNotes spawns at most two; only a --match search whose
\* own attempt and listNotes' JSON attempt both failed spawns three.
C1_ProcessCount ==
    /\ pc # "idle" => Len(cmds) \in 1..3
    /\ pc = "done" =>
          /\ IsSearchByRun => Len(cmds) = 1
          /\ IsListRun => Len(cmds) <= 2
          /\ Len(cmds) = 1 <=> (how.via \in {"json", "recovered", "empty"} /\ ~how.filtered)
          /\ Len(cmds) = 3 => IsMatchRun /\ outerErr # <<>> /\ listErr # <<>>

C1_Witness == pc = "done" /\ Len(cmds) = 3 /\ result.kind = "ok"

\* C3 as stated: in every operation, a failed JSON parse leads to plain-text
\* line parsing with one note per non-empty output line.
C3_AlwaysPlainText ==
    (pc = "done" /\ (IsParseError(outerErr) \/ IsParseError(listErr))) =>
        /\ how.via = "plain"
        /\ result.kind = "ok"
        /\ Len(result.notes) = Len(SelectSeq(Split(how.out, "NL"), IsNoteLine))

\* C3 as amended: only listNotes parses plain text, and it parses the output of
\* a second zk invocation (list without --format json), made when its JSON
\* attempt failed and no array was recovered from the error message.  When that
\* invocation does not throw, there is one note per line of its output that is
\* not blank and not a "Found N note(s)" line.  The tag, date and link searches
\* return the empty list instead, and the --match search returns listNotes()
\* filtered by the query.
C3_PlainTextFallback ==
    pc = "done" =>
        /\ how.via = "plain" =>
              /\ listErr # <<>>
              /\ cmds[Len(cmds)] = ListPlainArgs
              /\ result.kind = "ok"
              /\ how.source = SelectSeq(Split(how.out, "NL"), IsNoteLine)
              /\ ~how.filtered =>
                    /\ Len(result.notes) = Len(how.source)
                    /\ \A i \in 1..Len(how.source) :
                          result.notes[i].path = Trim(how.source[i])
        /\ listErr # <<>> => how.via \in {"recovered", "plain", "error"}
        /\ (IsSearchByRun /\ outerErr # <<>>) =>
              /\ how.via \in {"recovered", "empty"}
              /\ how.via = "empty" => result = Notes(<<>>)
        /\ (IsMatchRun /\ outerErr # <<>> /\ result.kind = "ok" /\ how.via # "recovered") =>
              how.filtered

C3_Witness ==
    /\ pc = "done" /\ how.via = "plain" /\ IsParseError(listErr)
    /\ Len(result.notes) = 2 /\ Len(Split(how.out, "NL")) > 2

\* C5: searchByTag, searchByDate and searchByLinks always return a list and
\* never throw; after a failure (zk threw, or its output did not parse to an
\* array) the list is empty unless an array was recovered from an error message
\* containing "found" and "notes"; they spawn exactly one process.
C5_SearchByNeverThrows ==
    (pc = "done" /\ IsSearchByRun) =>
        /\ result.kind = "ok"
        /\ Len(cmds) = 1
        /\ outerErr # <<>> =>
              \/ result.notes = <<>>
              \/ how.via = "recovered" /\ HasFoundNotes(outerErr)

C5_Witness ==
    /\ pc = "done" /\ IsSearchByRun /\ result = Notes(<<>>)
    /\ outerErr # <<>> /\ outerErr[1] = "zk command failed:"


\* the last segment of a path, without a trailing ".md"
LastSegment(p) ==
    LET k == LastIdx(p, {"/"})
        seg == SubSeq(p, k + 1, Len(p))
    IN  IF seg # <<>> /\ seg[Len(seg)] = ".md" THEN SubSeq(seg, 1, Len(seg) - 1) ELSE seg

\* the note the claim promises for an entry of the source array
NoteOfEntry(f) ==
    [id |-> IF f.id # <<>> THEN f.id ELSE f.path,
     title |-> IF f.title # <<>> THEN f.title
               ELSE IF LastSegment(f.path) # <<>> THEN LastSegment(f.path)
               ELSE <<"Untitled">>,
     path |-> IF f.path # <<>> THEN f.path ELSE f.id]

\* the note the claim promises for a line of the plain listing
NoteOfLine(line) ==
    [id |-> Trim(line),
     title |-> IF LastSegment(Trim(line)) # <<>> THEN LastSegment(Trim(line))
               ELSE <<"Untitled">>,
     path |-> Trim(line)]

\* the note the claim promises for the j-th entry or line the result was built from
PromisedNote(j) ==
    IF how.via = "plain" THEN NoteOfLine(how.source[j]) ELSE NoteOfEntry(Fields(how.source[j]))

\* a note passes the filter of searchNotes' fallback
MatchesQuery(note) ==
    \/ Includes(toLowerCase(note.title), toLowerCase(query))
    \/ Includes(toLowerCase(note.path), toLowerCase(query))

\* what holds of every note returned
NoteFields ==
    \A i \in 1..Len(result.notes) :
        /\ result.notes[i].title # <<>>
        /\ result.notes[i].id = <<>> <=> result.notes[i].path = <<>>

\* C10 as stated: every note has a title, id and path stand in for each other,
\* and the list returned has the length and order of the source array or of
\* the retained lines.
C10_SameLengthAndOrder ==
    (pc = "done" /\ result.kind = "ok") =>
        /\ NoteFields
        /\ Len(result.notes) = Len(how.source)
        /\ \A i \in 1..Len(how.source) : result.notes[i] = PromisedNote(i)

\* C10 as amended: the same, except on the fallback of searchNotes' --match
\* search, where the list returned is the sub-list, in the same order, of the
\* notes of listNotes() whose title or path contains the query
\* (case-insensitively).
C10_NoteInvariant ==
    (pc = "done" /\ result.kind = "ok") =>
        /\ NoteFields
        /\ ~how.filtered =>
              /\ Len(result.notes) = Len(how.source)
              /\ \A i \in 1..Len(how.source) :
                    /\ result.notes[i] = PromisedNote(i)
                    /\ (how.via # "plain" /\ (Fields(how.source[i]).id # <<>>
                                              \/ Fields(how.source[i]).path # <<>>)) =>
                          result.notes[i].id # <<>> /\ result.notes[i].path # <<>>
        /\ how.filtered =>
              \E pick \in [1..Len(result.notes) -> 1..Len(how.source)] :
                  /\ \A i \in 1..Len(result.notes) :
                        /\ result.notes[i] = PromisedNote(pick[i])
                        /\ i > 1 => pick[i - 1] < pick[i]
                  /\ \A j \in 1..Len(how.source) :
                        MatchesQuery(PromisedNote(j)) <=>
                            \E i \in 1..Len(result.notes) : pick[i] = j

C10_Witness ==
    /\ pc = "done" /\ result.kind = "ok" /\ how.via = "json" /\ how.filtered
    /\ Len(result.notes) = 1 /\ Len(how.source) = 2
    /\ result.notes[1].title = <<"b">>

-----------------------------------------------------------------------------
(* The dispatch of searchNotes over every short query *)

MaxQueryLen == 2

QueryAlphabet == {"#", "@", ">", "<", "~", "!", "SP", "orphan", "ORPHANS", "x"}

AllQueries == SeqsUpTo(QueryAlphabet, MaxQueryLen)

\* one zk process that lists a note and one that fails
FewProcs ==
    { [code |-> 0, stdout |-> <<"[", "{path:b.md}", "]">>, stderr |-> <<>>],
      [code |-> 1, stdout |-> <<>>, stderr |-> <<"error">>] }

InitDispatch ==
    /\ notebookDir = DefaultDir
    /\ InitZk
    /\ InitUi
    /\ InitEx
    /\ openLog = NoLog

StartAny == \E q \in AllQueries : Request(q)
SearchByEnds == \E proc \in FewProcs : SearchByExit(proc)
SearchNotesEnds == \E proc \in FewProcs : SearchNotesExit(proc)
ListNotesEnds == \E proc \in FewProcs : ListNotesExit(proc)
ListFallbackEnds == \E proc \in FewProcs : ListFallbackExit(proc)

NextDispatch ==
    \/ StartAny
    \/ SearchByEnds
    \/ SearchNotesEnds
    \/ ListNotesEnds
    \/ ListFallbackEnds

SpecDispatch == InitDispatch /\ [][NextDispatch]_vars

\* C6: searchNotes dispatches on the first character of the query.  '#', '@',
\* '>', '<' and '~' go to searchByTag, searchByDate and searchByLinks (modes
\* linked-by, link-to, related) with the trimmed rest of the query, or to
\* listNotes when that rest is empty; '!' followed by orphan or orphans (in any
\* case) goes to searchByLinks in mode orphan without a note reference; every
\* other query runs the --match search with the whole query.  The first zk
\* invocation is the one of exactly that route.
C6_Dispatch ==
    (pc # "idle" /\ Trim(query) # <<>>) =>
        LET c == query[1]
            rest == Trim(Tail(query))
            isOrphan == c = "!" /\ toLowerCase(rest) \in {<<"orphan">>, <<"orphans">>}
        IN  /\ (c = "#" /\ rest # <<>>) => cmds[1] = TagArgs(rest)
            /\ (c = "@" /\ rest # <<>>) => cmds[1] = DateArgs(rest)
            /\ (c = ">" /\ rest # <<>>) => cmds[1] = LinksArgs(rest, "linked-by")
            /\ (c = "<" /\ rest # <<>>) => cmds[1] = LinksArgs(rest, "link-to")
            /\ (c = "~" /\ rest # <<>>) => cmds[1] = LinksArgs(rest, "related")
            /\ (c \in {"#", "@", ">", "<", "~"} /\ rest = <<>>) => cmds[1] = ListJsonArgs
            /\ isOrphan => cmds[1] = LinksArgs(<<>>, "orphan")
            /\ (c \notin {"#", "@", ">", "<", "~"} /\ ~isOrphan) => cmds[1] = MatchArgs(query)

C6_Witness ==
    /\ pc = "done" /\ query = <<"!", "ORPHANS">>
    /\ cmds = <<FilterArgs \o <<"--sort", "modified", "--orphan">>>>

-----------------------------------------------------------------------------
(* execZk under every outcome of the zk process *)

ExecStderrs == Stderrs \cup { <<"warning">>, <<"Found 1 note">>, <<"SP">> }

ExecArgs == { ListJsonArgs, MatchArgs(<<"x">>), MatchArgs(<<"found">>) }

ExecProcs == [code : {0, 1}, stdout : Stdouts, stderr : ExecStderrs]

InitExec ==
    /\ notebookDir \in {DefaultDir, <<"/", "zk">>}
    /\ InitZk
    /\ InitUi
    /\ openLog = NoLog
    /\ exIn = <<>>
    /\ exOut = None
    /\ execArgs \in ExecArgs
    /\ execProc \in ExecProcs
    /\ execOut = None

ExecZkCall ==
    /\ execOut = None
    /\ execOut' = [kind |-> "done", threw |-> execZk(execArgs, execProc).threw,
                   text |-> execZk(execArgs, execProc).text]
    /\ UNCHANGED <<notebookDir, zkVars, uiVars, openLog, exIn, exOut, execArgs, execProc>>

NextExec == ExecZkCall

SpecExec == InitExec /\ [][NextExec]_vars

\* stderr is informational in the words of the claim
Informational(text) ==
    \/ \A i \in 1..Len(text) : text[i] \in Whitespace
    \/ HasFound(text) /\ HasNotes(text)
    \/ HasTok(toLowerCase(text), WarningToks)

Blank(text) == \A i \in 1..Len(text) : text[i] \in Whitespace

\* C4 as stated: whatever the exit status, execZk never throws when stderr is
\* informational, and throws only when stderr is not informational and stdout
\* is blank.
C4_AnyExitStatus ==
    execOut.kind = "done" =>
        /\ Informational(execProc.stderr) => ~execOut.threw
        /\ execOut.threw => ~Informational(execProc.stderr) /\ Blank(execProc.stdout)

\* C4 as amended: the rule holds when the zk process exits with status 0.  When
\* it exits with another status, stderr is not classified: execZk throws unless
\* stdout, stderr and the message of the exec error (which quotes the command
\* line and stderr) together contain both "found" and "notes".
C4_ThrowRule ==
    execOut.kind = "done" =>
        /\ execProc.code = 0 =>
              /\ Informational(execProc.stderr) => ~execOut.threw
              /\ execOut.threw => ~Informational(execProc.stderr) /\ Blank(execProc.stdout)
        /\ execProc.code # 0 =>
              (execOut.threw <=>
                  ~HasFoundNotes(execProc.stdout \o execProc.stderr
                                 \o ExecErrorMessage(execArgs, execProc.stderr)))

C4_Witness ==
    /\ execOut.kind = "done" /\ execOut.threw
    /\ execProc.code = 1 /\ execProc.stderr = <<"Warning:", "SP", "x">>
    /\ ~Blank(execProc.stdout)

-----------------------------------------------------------------------------
(* extractJson over framed arrays and over every short text *)

MaxInfoLines == 1
MaxTextLen == 3

\* the informational lines zk prints around its JSON
InfoLines == { <<"Found 2 notes">>, <<"Found 1 note">>, <<"Warning:", "SP", "x">> }

ExtractArrays ==
    JsonArrays \cup { <<"[", "{title:Warning: disk,path:w.md}", "]">>,
                      <<"[", "SP", "{path:b.md}", "SP", "{}", "]">> }

\* a JSON array with informational lines before and after it
Framed ==
    { [text |-> Join(pre \o <<arr>> \o post, "NL"), array |-> arr] :
        pre \in SeqsUpTo(InfoLines, MaxInfoLines),
        arr \in ExtractArrays,
        post \in SeqsUpTo(InfoLines, MaxInfoLines) }

ExtractAlphabet == {"[", "]", "{", "}", "NL", "SP", "x", "Found 2 notes", "Warning:"}

Unframed == [text : SeqsUpTo(ExtractAlphabet, MaxTextLen), array : {<<>>}]

InitExtract ==
    /\ notebookDir = DefaultDir
    /\ InitZk
    /\ InitUi
    /\ openLog = NoLog
    /\ exIn \in Framed \cup Unframed
    /\ exOut = None
    /\ execArgs = <<>>
    /\ execProc = NoProc
    /\ execOut = None

ExtractJsonCall ==
    /\ exOut = None
    /\ exOut' = [kind |-> "text", text |-> extractJson(exIn.text)]
    /\ UNCHANGED <<notebookDir, zkVars, uiVars, openLog, exIn, execArgs, execProc, execOut>>

NextExtract == ExtractJsonCall

SpecExtract == InitExtract /\ [][NextExtract]_vars

\* a text holds a t1 with a t2 somewhere after it
HasSpan(text, open, close) ==
    \E i \in 1..Len(text) : \E j \in i..Len(text) :
        /\ text[i] \in open
        /\ text[j] \in close
        /\ j > i \/ text[i] \in ObjToks

\* for a JSON array framed by informational lines the result is the array
C9_FramedArray ==
    (exOut.kind = "text" /\ exIn.array # <<>>) => exOut.text = exIn.array

\* the result has no blank line, no "Found N note(s)" line, no line with "warning:"
C9_NoInformationalLine ==
    exOut.kind = "text" =>
        \A i \in 1..Len(Split(exOut.text, "NL")) :
            LET line == Split(exOut.text, "NL")[i]
            IN  /\ exOut.text # <<>> => ~Blank(line)
                /\ ~(\E t \in {"Found 2 notes", "Found 1 note"} : Trim(line) = <<t>>)
                /\ ~HasTok(toLowerCase(line), WarningColonToks)

\* an array span wins over an object span, and without either the result is trimmed
C9_SpanPreference ==
    exOut.kind = "text" =>
        LET kept == Cleaned(exIn.text)
        IN  /\ HasSpan(kept, {"["}, {"]"}) =>
                  /\ exOut.text[1] = "[" /\ exOut.text[Len(exOut.text)] = "]"
                  /\ Len(exOut.text) = LastIdx(kept, {"]"}) - FirstIdx(kept, {"["}) + 1
            /\ (~HasSpan(kept, {"["}, {"]"}) /\ HasSpan(kept, OpenBraceToks, CloseBraceToks)) =>
                  /\ exOut.text[1] \in OpenBraceToks
                  /\ exOut.text[Len(exOut.text)] \in CloseBraceToks
            /\ (~HasSpan(kept, {"["}, {"]"}) /\ ~HasSpan(kept, OpenBraceToks, CloseBraceToks)) =>
                  exOut.text = Trim(kept)

\* C9: extractJson returns exactly the JSON array of an output made of the
\* array and informational lines around it; its result never holds a blank
\* line, a "Found N note(s)" line or a line with "warning:"; an array span is
\* preferred to an object span, and without either the cleaned text is
\* returned trimmed.
C9_ExtractJson == C9_FramedArray /\ C9_NoInformationalLine /\ C9_SpanPreference

-----------------------------------------------------------------------------
(* openNote and getNoteContent *)

RECURSIVE Resolve(_, _, _)
\* the ".." and "." segments of a path resolved, left to right
Resolve(segs, acc, isAbs) ==
    IF segs = <<>> THEN acc
    ELSE LET seg == Head(segs)
         IN  IF seg = <<>> \/ seg = <<".">> THEN Resolve(Tail(segs), acc, isAbs)
             ELSE IF seg = <<"..">>
             THEN IF acc # <<>> /\ acc[Len(acc)] # <<"..">>
                  THEN Resolve(Tail(segs), SubSeq(acc, 1, Len(acc) - 1), isAbs)
                  ELSE IF isAbs THEN Resolve(Tail(segs), acc, isAbs)
                  ELSE Resolve(Tail(segs), Append(acc, seg), isAbs)
             ELSE Resolve(Tail(segs), Append(acc, seg), isAbs)

\* path.normalize (POSIX)
Normalize(p) ==
    LET isAbs == StartsWith(p, "/")
        body == Join(Resolve(Split(p, "/"), <<>>, isAbs), "/")
        trailing == IF p[Len(p)] = "/" /\ body # <<>> THEN <<"/">> ELSE <<>>
    IN  IF isAbs THEN <<"/">> \o body \o trailing
        ELSE IF body = <<>> THEN <<".">>
        ELSE body \o trailing

\* path.join(a, b) (POSIX): the non-empty arguments joined with "/", normalized
PathJoin(a, b) ==
    IF a = <<>> /\ b = <<>> THEN <<".">>
    ELSE IF a = <<>> THEN Normalize(b)
    ELSE IF b = <<>> THEN Normalize(a)
    ELSE Normalize(a \o <<"/">> \o b)

\* the absolutePath of openNote and of getNoteContent
AbsolutePath(notePath) ==
    IF StartsWith(notePath, "/") THEN notePath ELSE PathJoin(notebookDir, notePath)

LaunchAttempt(launcher, target, outcome) ==
    [launcher |-> launcher, target |-> target, outcome |-> outcome]

\* openNote: execSync of "open -a Neovide" succeeds or throws; spawn of Ghostty
\* starts the terminal, throws, or returns a child whose launch fails afterwards
\* (a missing binary is reported by the child's 'error' event, not by an
\* exception); execSync of "open" succeeds or throws
openNote(notePath, neovide, ghostty, sysOpen) ==
    LET absolutePath == AbsolutePath(notePath)
        n == LaunchAttempt("Neovide", absolutePath, neovide)
        g == LaunchAttempt("Ghostty", absolutePath, ghostty)
        o == LaunchAttempt("open", absolutePath, sysOpen)
        Log(attempts, outcome) ==
            [fn |-> "openNote", notePath |-> notePath, absolutePath |-> absolutePath,
             attempts |-> attempts, outcome |-> outcome]
    IN  IF neovide = "ok" THEN Log(<<n>>, "returned")
        ELSE IF ghostty # "threw" THEN Log(<<n, g>>, "returned")
        ELSE IF sysOpen = "ok" THEN Log(<<n, g, o>>, "returned")
        ELSE Log(<<n, g, o>>, "threw")

\* getNoteContent: the content or the text of the error, never an exception
getNoteContent(notePath, readOutcome) ==
    [fn |-> "getNoteContent", notePath |-> notePath,
     absolutePath |-> AbsolutePath(notePath),
     attempts |-> <<LaunchAttempt("readFile", AbsolutePath(notePath), readOutcome)>>,
     outcome |-> "returned"]

\* the paths of the notes the list and search operations return
NotePaths ==
    { <<"dir", "/", "alpha", ".md">>, <<"b", ".md">>, <<"/", "abs", "/", "n", ".md">>,
      <<"..", "/", "x", ".md">>, <<"7">>, <<>> }

InitOpen ==
    /\ notebookDir \in NotebookDirs
    /\ InitZk
    /\ InitUi
    /\ InitEx
    /\ openLog = NoLog

\* handleOpenNote of the search screen
HandleOpenNote ==
    \E notePath \in NotePaths, neovide \in {"ok", "failed"},
       ghostty \in {"started", "threw", "failedLater"}, sysOpen \in {"ok", "failed"} :
        /\ openLog' = openNote(notePath, neovide, ghostty, sysOpen)
        /\ toast' = IF openLog'.outcome = "threw"
                    THEN [kind |-> "failure", title |-> "Error opening note"]
                    ELSE [kind |-> "success", title |-> "Note opened"]
        /\ UNCHANGED <<notebookDir, zkVars, searchText, lastCallId, inflight, data, dropped,
                       exVars>>

\* the preview screen reading the note
ShowPreview ==
    \E notePath \in NotePaths, readOutcome \in {"ok", "failed"} :
        /\ openLog' = getNoteContent(notePath, readOutcome)
        /\ UNCHANGED <<notebookDir, zkVars, uiVars, exVars>>

NextOpen == HandleOpenNote \/ ShowPreview

SpecOpen == InitOpen /\ [][NextOpen]_vars

\* C7: openNote and getNoteContent resolve a note path the same way (a path
\* starting with "/" unchanged, any other joined onto ZK_NOTEBOOK_DIR), and the
\* path handed to the launcher or to the file read is always absolute.
C7_AbsolutePath ==
    openLog.fn # "none" =>
        /\ openLog.absolutePath =
              IF StartsWith(openLog.notePath, "/") THEN openLog.notePath
              ELSE PathJoin(notebookDir, openLog.notePath)
        /\ \A i \in 1..Len(openLog.attempts) :
              /\ openLog.attempts[i].target = openLog.absolutePath
              /\ StartsWith(openLog.attempts[i].target, "/")

\* a launcher attempt put the note in front of the user
Launched(attempt) == attempt.outcome \in {"ok", "started"}

\* C8: the launchers are tried in the order Neovide, Ghostty, open, a later one
\* only after every earlier one failed; openNote returns as soon as one
\* succeeded and throws only when all three failed, so a failed launch is
\* either made good by a later launcher or reported to the caller.
C8_LauncherFallback ==
    openLog.fn = "openNote" =>
        LET a == openLog.attempts
        IN  /\ Len(a) \in 1..3
            /\ \A i \in 1..Len(a) : a[i].launcher = <<"Neovide", "Ghostty", "open">>[i]
            /\ \A i \in 1..(Len(a) - 1) : ~Launched(a[i])
            /\ openLog.outcome = "returned" => Launched(a[Len(a)])
            /\ openLog.outcome = "threw" => Len(a) = 3 /\ \A i \in 1..3 : ~Launched(a[i])

-----------------------------------------------------------------------------
(* The search screen: usePromise(fn, [searchText]) *)

MaxCalls == 4

\* the texts typed into the search bar
SearchTexts == { <<>>, <<"SP">>, <<"alpha">>, <<"#", "alpha">> }

\* usePromise starting a call: the call takes the next call id and becomes the latest
UsePromiseRun(text) ==
    /\ lastCallId' = lastCallId + 1
    /\ inflight' = inflight \cup {[id |-> lastCallId + 1, query |-> text, call |-> SearchFn(text)]}

\* usePromise settling a call: only the outcome of the latest call reaches the
\* screen (data on success; the error handler, and no data, on failure)
UsePromiseSettle(c, ok) ==
    /\ inflight' = inflight \ {c}
    /\ IF c.id # lastCallId
       THEN /\ dropped' = dropped \cup {c.id}
            /\ UNCHANGED <<data, toast>>
       ELSE /\ UNCHANGED dropped
            /\ IF ok
               THEN /\ data' = [kind |-> "notes", id |-> c.id, query |-> c.query, call |-> c.call]
                    /\ UNCHANGED toast
               ELSE /\ data' = None
                    /\ toast' = [kind |-> "failure", title |-> "Error searching notes"]

\* the screen is mounted: the first call, for the empty search text, is in flight
InitSearchScreen ==
    /\ notebookDir = DefaultDir
    /\ InitZk
    /\ InitEx
    /\ openLog = NoLog
    /\ searchText = <<>>
    /\ lastCallId = 1
    /\ inflight = {[id |-> 1, query |-> <<>>, call |-> SearchFn(<<>>)]}
    /\ data = None
    /\ dropped = {}
    /\ toast = None

\* onSearchTextChange: the dependency of usePromise changes, a new call starts
OnSearchTextChange ==
    \E text \in SearchTexts :
        /\ text # searchText
        /\ lastCallId < MaxCalls
        /\ searchText' = text
        /\ UsePromiseRun(text)
        /\ UNCHANGED <<notebookDir, zkVars, data, dropped, toast, openLog, exVars>>

\* a search in flight returns its notes
SearchResolves ==
    \E c \in inflight :
        /\ UsePromiseSettle(c, TRUE)
        /\ UNCHANGED <<notebookDir, zkVars, searchText, lastCallId, openLog, exVars>>

\* a search in flight throws
SearchRejects ==
    \E c \in inflight :
        /\ UsePromiseSettle(c, FALSE)
        /\ UNCHANGED <<notebookDir, zkVars, searchText, lastCallId, openLog, exVars>>

NextUI == OnSearchTextChange \/ SearchResolves \/ SearchRejects

SpecUI == InitSearchScreen /\ [][NextUI]_vars

\* C2: once every overlapping search has completed, a note list on the screen
\* is the result of the call made for the latest search text (searchNotes of
\* the text when its trim is non-empty, listNotes otherwise), never the result
\* of a superseded query.
C2_LatestWins ==
    (inflight = {} /\ data.kind = "notes") =>
        /\ data.id = lastCallId
        /\ data.query = searchText
        /\ data.call = IF Trim(searchText) # <<>>
                       THEN searchNotes(searchText)
                       ELSE Call("listNotes", <<>>, "")

\* a superseded search completed after the latest one and was discarded
C2_Witness ==
    /\ inflight = {}
    /\ data.kind = "notes"
    /\ data.query = <<"alpha">>
    /\ lastCallId >= 3
    /\ (lastCallId - 1) \in dropped

=============================================================================
